---- MODULE Spec2Model ----
(***************************************************************************)
(* Model of redis-om-node's Store Gateway (lib/redis/redis-shim.ts) and    *)
(* JSON Transcoder (toRedisJson / fromRedisJson).                          *)
(*                                                                         *)
(* Part I  : RedisShim over one key, several isolated sessions.            *)
(* Part II : the transcoder, as operators over JSON values with explicit   *)
(*           locations (parent, parentProperty) and explicit aliasing.     *)
(***************************************************************************)
EXTENDS Integers, Sequences, FiniteSets, TLC

VARIABLES
  \* ---- Part I: gateway ----
  store,      \* the hash stored under the key (empty function: key absent)
  pc,         \* per session: position inside hsetall
  data,       \* per session: the `data` argument of the running hsetall
  watching,   \* per session: the server holds a WATCH of the key for it
  dirty,      \* per session: the watched key was touched since the WATCH
  reply,      \* per session: the server's answer to EXEC, not yet received
  caught,     \* per session: the error that reached hsetall's catch block
  outcome,    \* per session: how the hsetall call ended
  failedAt,   \* per session: the await at which the failure arose
  applied,    \* per session: the server ran this call's transaction
  conflicted, \* per session: another hsetall committed after this one's watch
  written,    \* every record a completed command legitimately stored
  lastRead,   \* the last reply of hgetall
  ncalls,     \* number of hsetall calls started
  \* ---- Part II: transcoder ----
  schema,     \* the schema definition: its field definitions in entry order
  doc,        \* the caller's document, as the caller sees it
  doc0,       \* the document as it was handed in
  tpc,        \* "start", "encoded", "decoded" or "roundtrip"
  res,        \* what toRedisJson / fromRedisJson returned or threw
  back        \* what fromRedisJson made of the document toRedisJson returned

gvars == <<store, pc, data, watching, dirty, reply, caught, outcome, failedAt,
           applied, conflicted, written, lastRead, ncalls>>
tvars == <<schema, doc, doc0, tpc, res, back>>
vars == <<gvars, tvars>>

----------------------------------------------------------------------------
(* Part I: Store Gateway                                                   *)

Sessions == {"s1", "s2"}
FieldNames == {"f", "g"}
FieldVals == {"1", "2"}
MaxCalls == 3

EmptyHash == [n \in {} |-> "1"]

\* every flat record over FieldNames
HashData == UNION {[D -> FieldVals] : D \in SUBSET FieldNames}
\* the record present before any call, and the `data` arguments of hsetall:
\* non-empty (HSET needs at least one field/value pair) and, so that a field
\* left over from the old record shows, different from the old values
OldRecord == [n \in FieldNames |-> "1"]
Inputs == {h \in HashData : DOMAIN h # {} /\ \A n \in DOMAIN h : h[n] = "2"}

NoError == [name |-> "", message |-> ""]
WatchError == [name |-> "WatchError",
               message |-> "One (or more) of the watched keys has been changed"]
TransportErrors ==
  {[name |-> "SocketClosedUnexpectedlyError", message |-> "Socket closed unexpectedly"],
   [name |-> "ConnectionTimeoutError", message |-> "Connection timeout"]}
RedisError == [name |-> "RedisError", message |-> "Watch error when setting HASH."]

\* server side of the two queued commands
HSet(h, d) == [n \in (DOMAIN h) \cup (DOMAIN d) |-> IF n \in DOMAIN d THEN d[n] ELSE h[n]]
ApplyCmd(h, c) == IF c.cmd = "UNLINK" THEN EmptyHash ELSE HSet(h, c.data)

RECURSIVE ExecQueued(_, _)
ExecQueued(h, q) == IF q = <<>> THEN h ELSE ExecQueued(ApplyCmd(h, Head(q)), Tail(q))

\* a transaction that forgets the unlink: the old record's fields survive
MultiQueueNoUnlink(d) == <<[cmd |-> "HSET", data |-> d]>>

\* .multi().unlink(key).hSet(key, data)
MultiQueue(d) ==
  <<[cmd |-> "UNLINK", data |-> EmptyHash], [cmd |-> "HSET", data |-> d]>>

\* a catch block that wraps every error
CatchAlwaysConflict(e) == RedisError

\* catch (error) { if (error.name === 'WatchError') throw new RedisError(..); throw error }
Catch(e) == IF e.name = "WatchError" THEN RedisError ELSE e

\* every watching session other than s sees the key touched
Touch(s) == [t \in Sessions |-> IF t # s /\ watching[t] THEN TRUE ELSE dirty[t]]

\* hsetall(key, data) is called: executeIsolated hands out an isolated client
Hsetall(s, d) ==
  /\ pc[s] = "idle"
  /\ ncalls < MaxCalls
  /\ ncalls' = ncalls + 1
  /\ pc' = [pc EXCEPT ![s] = "watch"]
  /\ data' = [data EXCEPT ![s] = d]
  /\ caught' = [caught EXCEPT ![s] = NoError]
  /\ outcome' = [outcome EXCEPT ![s] = [kind |-> "none", err |-> NoError]]
  /\ failedAt' = [failedAt EXCEPT ![s] = "none"]
  /\ applied' = [applied EXCEPT ![s] = FALSE]
  /\ conflicted' = [conflicted EXCEPT ![s] = FALSE]
  /\ UNCHANGED <<store, watching, dirty, reply, written, lastRead>>
  /\ UNCHANGED tvars

\* the isolated client never registers the watch
WatchSkipped(s) ==
  /\ pc[s] = "watch"
  /\ pc' = [pc EXCEPT ![s] = "exec"]
  /\ UNCHANGED <<store, data, watching, dirty, reply, caught, outcome, failedAt,
                 applied, conflicted, written, lastRead, ncalls>>
  /\ UNCHANGED tvars

\* await isolatedClient.watch(key)
Watch(s) ==
  /\ pc[s] = "watch"
  /\ pc' = [pc EXCEPT ![s] = "exec"]
  /\ watching' = [watching EXCEPT ![s] = TRUE]
  /\ dirty' = [dirty EXCEPT ![s] = FALSE]
  /\ UNCHANGED <<store, data, reply, caught, outcome, failedAt, applied,
                 conflicted, written, lastRead, ncalls>>
  /\ UNCHANGED tvars

\* the call ends by throwing what the catch block makes of error e
Throw(s, e, at) ==
  /\ pc' = [pc EXCEPT ![s] = "idle"]
  /\ caught' = [caught EXCEPT ![s] = e]
  /\ outcome' = [outcome EXCEPT ![s] = [kind |-> "error", err |-> Catch(e)]]
  /\ failedAt' = [failedAt EXCEPT ![s] = at]
  /\ watching' = [watching EXCEPT ![s] = FALSE]
  /\ dirty' = [dirty EXCEPT ![s] = FALSE]
  /\ reply' = [reply EXCEPT ![s] = "none"]

\* executeIsolated or watch rejects with a transport error
WatchFail(s, e) ==
  /\ pc[s] = "watch"
  /\ Throw(s, e, "watch")
  /\ UNCHANGED <<store, data, applied, conflicted, written, lastRead, ncalls>>
  /\ UNCHANGED tvars

\* the server runs MULTI .. EXEC of session s in one step: aborted when the
\* watched key was touched, otherwise both queued commands are applied
Exec(s) ==
  /\ pc[s] = "exec"
  /\ pc' = [pc EXCEPT ![s] = "reply"]
  /\ watching' = [watching EXCEPT ![s] = FALSE]
  /\ IF watching[s] /\ dirty[s]
       THEN /\ reply' = [reply EXCEPT ![s] = "nil"]
            /\ dirty' = [dirty EXCEPT ![s] = FALSE]
            /\ UNCHANGED <<store, applied, conflicted, written>>
       ELSE /\ store' = ExecQueued(store, MultiQueue(data[s]))
            /\ reply' = [reply EXCEPT ![s] = "ok"]
            /\ applied' = [applied EXCEPT ![s] = TRUE]
            /\ dirty' = [Touch(s) EXCEPT ![s] = FALSE]
            /\ conflicted' = [t \in Sessions |->
                                IF t # s /\ pc[t] = "exec" THEN TRUE ELSE conflicted[t]]
            /\ written' = written \cup {data[s]}
  /\ UNCHANGED <<data, caught, outcome, failedAt, lastRead, ncalls>>
  /\ UNCHANGED tvars

\* the connection fails before the server has seen the transaction
ExecFail(s, e) ==
  /\ pc[s] = "exec"
  /\ Throw(s, e, "exec")
  /\ UNCHANGED <<store, data, applied, conflicted, written, lastRead, ncalls>>
  /\ UNCHANGED tvars

\* the client receives the answer to EXEC: a nil answer makes exec() throw WatchError
Reply(s) ==
  /\ pc[s] = "reply"
  /\ IF reply[s] = "nil"
       THEN Throw(s, WatchError, "abort")
       ELSE /\ pc' = [pc EXCEPT ![s] = "idle"]
            /\ outcome' = [outcome EXCEPT ![s] = [kind |-> "ok", err |-> NoError]]
            /\ reply' = [reply EXCEPT ![s] = "none"]
            /\ UNCHANGED <<caught, failedAt, watching, dirty>>
  /\ UNCHANGED <<store, data, applied, conflicted, written, lastRead, ncalls>>
  /\ UNCHANGED tvars

\* the connection fails after the server ran EXEC and before its answer arrived
ReplyLost(s, e) ==
  /\ pc[s] = "reply"
  /\ Throw(s, e, "lost")
  /\ UNCHANGED <<store, data, applied, conflicted, written, lastRead, ncalls>>
  /\ UNCHANGED tvars

\* unlink(key) from any client: only an existing key is touched
Unlink ==
  /\ store' = EmptyHash
  /\ dirty' = IF store # EmptyHash
                THEN [t \in Sessions |-> IF watching[t] THEN TRUE ELSE dirty[t]]
                ELSE dirty
  /\ written' = written \cup {EmptyHash}
  /\ UNCHANGED <<pc, data, watching, reply, caught, outcome, failedAt, applied,
                 conflicted, lastRead, ncalls>>
  /\ UNCHANGED tvars

\* hgetall(key) from any client
Hgetall ==
  /\ lastRead' = store
  /\ UNCHANGED <<store, pc, data, watching, dirty, reply, caught, outcome,
                 failedAt, applied, conflicted, written, ncalls>>
  /\ UNCHANGED tvars

GNext ==
  \/ \E s \in Sessions, d \in Inputs : Hsetall(s, d)
  \/ \E s \in Sessions : Watch(s)
  \/ \E s \in Sessions, e \in TransportErrors : WatchFail(s, e)
  \/ \E s \in Sessions : Exec(s)
  \/ \E s \in Sessions, e \in TransportErrors : ExecFail(s, e)
  \/ \E s \in Sessions : Reply(s)
  \/ \E s \in Sessions, e \in TransportErrors : ReplyLost(s, e)
  \/ Unlink
  \/ Hgetall

----------------------------------------------------------------------------
(* Part II: Transcoder                                                     *)
(*                                                                         *)
(* A JavaScript value is a record [t, s, n, e]: t its kind, s the text of  *)
(* a string, n the payload of a boolean (0/1), of a number (in millionths) *)
(* or of a Date (getTime(), milliseconds), e the entries <<[k, v], ..>> of *)
(* an object (in insertion order) or of an array (keys "0", "1", ..).      *)
(* A location is the sequence of keys leading from the root to a value:    *)
(* JSONPath's (parent, parentProperty) is (Front(loc), Last(loc)).         *)

MaxArrLen == 2

Val(t, s, n, e) == [t |-> t, s |-> s, n |-> n, e |-> e]
Undefined == Val("undefined", "", 0, <<>>)
Null == Val("null", "", 0, <<>>)
Bool(b) == Val("boolean", "", IF b THEN 1 ELSE 0, <<>>)
Num(u) == Val("number", "", u, <<>>)
NaN == Val("number", "NaN", 0, <<>>)
Str(s) == Val("string", s, 0, <<>>)
DateOf(ms) == Val("date", "", ms, <<>>)
InvalidDate == Val("date", "Invalid Date", 0, <<>>)
Entry(k, v) == [k |-> k, v |-> v]
Obj(entries) == Val("object", "", 0, entries)
IdxKey(i) == <<"0", "1", "2", "3", "4">>[i]
Arr(elems) == Val("array", "", 0, [i \in DOMAIN elems |-> Entry(IdxKey(i), elems[i])])
Point(lon, lat) == Obj(<<Entry("longitude", lon), Entry("latitude", lat)>>)

Front(loc) == SubSeq(loc, 1, Len(loc) - 1)
IsPrefix(p, q) == Len(p) <= Len(q) /\ SubSeq(q, 1, Len(p)) = p

\* position of key k among the entries of v (0: v has no own property k)
KeyPos(v, k) ==
  IF \E i \in DOMAIN v.e : v.e[i].k = k
    THEN CHOOSE i \in DOMAIN v.e : v.e[i].k = k
    ELSE 0
Has(v, k) == KeyPos(v, k) # 0
Child(v, k) == v.e[KeyPos(v, k)].v

RECURSIVE HasLoc(_, _)
HasLoc(d, loc) ==
  IF loc = <<>> THEN TRUE
  ELSE Has(d, Head(loc)) /\ HasLoc(Child(d, Head(loc)), Tail(loc))

RECURSIVE Get(_, _)
Get(d, loc) == IF loc = <<>> THEN d ELSE Get(Child(d, Head(loc)), Tail(loc))

\* parent[parentProperty] = x
RECURSIVE Put(_, _, _)
Put(d, loc, x) ==
  IF loc = <<>> THEN x
  ELSE LET i == KeyPos(d, Head(loc))
       IN  [d EXCEPT !.e[i].v = Put(d.e[i].v, Tail(loc), x)]

\* delete parent[parentProperty]
RECURSIVE Del(_, _)
Del(d, loc) ==
  LET i == KeyPos(d, Head(loc))
  IN  IF Len(loc) = 1
        THEN [d EXCEPT !.e = SubSeq(d.e, 1, i - 1) \o SubSeq(d.e, i + 1, Len(d.e))]
        ELSE [d EXCEPT !.e[i].v = Del(d.e[i].v, Tail(loc))]

\* every location of d, the root included, in document order
RECURSIVE Locs(_, _)
Locs(d, prefix) ==
  LET RECURSIVE Kids(_)
      Kids(i) == IF i > Len(d.e) THEN <<>>
                 ELSE Locs(d.e[i].v, Append(prefix, d.e[i].k)) \o Kids(i + 1)
  IN  <<prefix>> \o Kids(1)
AllLocs(d) == {Locs(d, <<>>)[i] : i \in DOMAIN Locs(d, <<>>)}

\* JSONPath({resultType: 'all', path, json}): the locations matched by the steps
\* of a path (a property name, or "*" for every child of an object or array),
\* in document order
RECURSIVE Trace(_, _, _)
Trace(steps, v, prefix) ==
  IF steps = <<>> THEN <<prefix>>
  ELSE IF v.t \notin {"object", "array"} THEN <<>>
  ELSE IF Head(steps) = "*"
    THEN LET RECURSIVE Walk(_)
             Walk(i) == IF i > Len(v.e) THEN <<>>
                        ELSE Trace(Tail(steps), v.e[i].v, Append(prefix, v.e[i].k))
                               \o Walk(i + 1)
         IN  Walk(1)
  ELSE IF Has(v, Head(steps))
    THEN Trace(Tail(steps), Child(v, Head(steps)), Append(prefix, Head(steps)))
  ELSE <<>>

JSONPath(steps, json) == Trace(steps, json, <<>>)

\* ---- helpers of transformer-common ----
isNull(value) == value.t = "null"
isUndefined(value) == value.t = "undefined"
isDefined(value) == value.t # "undefined"
isBoolean(value) == value.t = "boolean"
isNumber(value) == value.t = "number"
isString(value) == value.t = "string"
isDate(value) == value.t = "date"
isArray(value) == value.t = "array"
isObject(value) == value.t = "object"
isPoint(value) ==
  /\ value.t = "object"
  /\ Len(value.e) = 2
  /\ Has(value, "longitude") /\ isNumber(Child(value, "longitude"))
  /\ Has(value, "latitude") /\ isNumber(Child(value, "latitude"))

\* Number.prototype.toString, for the numbers of the model (millionths)
NumToString(value) ==
  IF value.s = "NaN" THEN "NaN"
  ELSE CASE value.n = 0 -> "0"
         [] value.n = 1000000 -> "1"
         [] value.n = 1500000 -> "1.5"
         [] value.n = 2000000 -> "2"
         [] value.n = 42000000 -> "42"
KnownNums == {Num(0), Num(1000000), Num(1500000), Num(2000000), Num(42000000)}

\* Date.prototype.toString, for the dates of the model
DateToString(value) ==
  IF value.s # "" THEN "Invalid Date"
  ELSE CASE value.n = 0 -> "Thu Jan 01 1970 00:00:00 GMT+0000"
         [] value.n \in {1000, 1500} -> "Thu Jan 01 1970 00:00:01 GMT+0000"
         [] value.n = 2000 -> "Thu Jan 01 1970 00:00:02 GMT+0000"
         [] value.n = 42000 -> "Thu Jan 01 1970 00:00:42 GMT+0000"

\* new Date(isoString), for the strings of the model
NewDate(text) ==
  CASE text = "1970-01-01T00:00:01.500Z" -> DateOf(1500)
    [] text = "1970-01-01T00:00:42.000Z" -> DateOf(42000)
    [] OTHER -> InvalidDate

\* value.getTime() / 1000
convertDateToEpoch(value) == IF value.s # "" THEN NaN ELSE Num(value.n * 1000)
\* new Date(value * 1000): the time value is cut to whole milliseconds
convertEpochToDate(value) == IF value.s # "" THEN InvalidDate ELSE DateOf(value.n \div 1000)
convertIsoDateToEpoch(value) == convertDateToEpoch(NewDate(value.s))

\* `${longitude},${latitude}`
convertPointToString(value) ==
  Str(NumToString(Child(value, "longitude")) \o "," \o NumToString(Child(value, "latitude")))
PointStringPairs(text) ==
  {p \in KnownNums \X KnownNums : NumToString(p[1]) \o "," \o NumToString(p[2]) = text}
isPointString(value) == isString(value) /\ PointStringPairs(value.s) # {}
\* value.split(',').map(Number.parseFloat)
convertStringToPoint(value) ==
  LET p == CHOOSE q \in PointStringPairs(value.s) : TRUE IN Point(p[1], p[2])

\* value.toString() of a value that is neither null nor undefined
RECURSIVE ToStringJS(_)
ToStringJS(value) ==
  CASE value.t = "boolean" -> IF value.n = 1 THEN "true" ELSE "false"
    [] value.t = "number" -> NumToString(value)
    [] value.t = "string" -> value.s
    [] value.t = "date" -> DateToString(value)
    [] value.t = "object" -> "[object Object]"
    [] value.t = "array" ->
         LET RECURSIVE Join(_)
             Join(i) ==
               IF i > Len(value.e) THEN ""
               ELSE (IF i > 1 THEN "," ELSE "")
                    \o (IF value.e[i].v.t \in {"null", "undefined"} THEN ""
                        ELSE ToStringJS(value.e[i].v))
                    \o Join(i + 1)
         IN  Join(1)

\* ---- what a conversion yields: a value, or a thrown error ----
NoErr == [kind |-> "", what |-> ""]
Ok(v) == [ok |-> TRUE, v |-> v, err |-> NoErr]
Thrown(kind, what) == [ok |-> FALSE, v |-> Undefined, err |-> [kind |-> kind, what |-> what]]

convertKnownValueToString(value) ==
  IF isBoolean(value) \/ isNumber(value) THEN Ok(Str(ToStringJS(value)))
  ELSE IF isString(value) THEN Ok(value)
  ELSE Thrown("Expected a string but received", "")

\* first element of the array that map() throws on, 0 if none
FirstBad(array, bad) ==
  IF \E i \in DOMAIN array.e : array.e[i].v.t \in bad
    THEN CHOOSE i \in DOMAIN array.e :
           /\ array.e[i].v.t \in bad
           /\ \A j \in 1..(i - 1) : array.e[j].v.t \notin bad
    ELSE 0
StringsOf(array) ==
  Val("array", "", 0, [i \in DOMAIN array.e |-> Entry(array.e[i].k, Str(ToStringJS(array.e[i].v)))])

convertArrayToStringArray(array) ==
  LET i == FirstBad(array, {"null", "undefined"})
  IN  IF i = 0 THEN Ok(StringsOf(array))
      ELSE IF isNull(array.e[i].v)
        THEN Thrown("Expected a string[] but received an array containing null", "")
        ELSE Thrown("Expected a string[] but received an array containing undefined", "")

convertFromJsonArrayToStringArray(array) ==
  LET i == FirstBad(array, {"null", "undefined"})
  IN  IF i = 0 THEN Ok(StringsOf(array))
      ELSE IF isNull(array.e[i].v)
        THEN Thrown("Expected a string[] from RedisJSON but received an array containing null", "")
        ELSE Thrown("TypeError: Cannot read properties of undefined (reading 'toString')", "")

convertKnownValueToJson(fieldType, value) ==
  IF isNull(value) THEN Ok(value)
  ELSE CASE fieldType = "boolean" ->
              IF isBoolean(value) THEN Ok(value)
              ELSE Thrown("Expected a boolean but received", "")
         [] fieldType = "number" ->
              IF isNumber(value) THEN Ok(value)
              ELSE Thrown("Expected a number but received", "")
         [] fieldType = "date" ->
              IF isDate(value) THEN Ok(convertDateToEpoch(value))
              ELSE IF isString(value) THEN Ok(convertIsoDateToEpoch(value))
              ELSE IF isNumber(value) THEN Ok(value)
              ELSE Thrown("Expected a date but received", "")
         [] fieldType = "point" ->
              IF isPoint(value) THEN Ok(convertPointToString(value))
              ELSE Thrown("Expected a point but received", "")
         [] fieldType \in {"string", "text"} -> convertKnownValueToString(value)
         [] fieldType = "string[]" ->
              IF isArray(value) THEN convertArrayToStringArray(value)
              ELSE Thrown("Expected a string[] but received", "")

\* a 'date' case that hands back the stored number
convertDateValueFromJsonKept(value) ==
  IF isNumber(value) THEN Ok(value)
  ELSE Thrown("Expected a number containing a epoch date from RedisJSON but received", "")

\* case 'date' of convertKnownValueFromJson
convertDateValueFromJson(value) ==
  IF isNumber(value) THEN Ok(convertEpochToDate(value))
  ELSE Thrown("Expected a number containing a epoch date from RedisJSON but received", "")

convertKnownValueFromJson(fieldType, value) ==
  IF isNull(value) THEN Ok(value)
  ELSE CASE fieldType = "boolean" ->
              IF isBoolean(value) THEN Ok(value)
              ELSE Thrown("Expected a value of true, false, or null from RedisJSON for a boolean but received", "")
         [] fieldType = "number" ->
              IF isNumber(value) THEN Ok(value)
              ELSE Thrown("Expected a number from RedisJSON but received", "")
         [] fieldType = "date" -> convertDateValueFromJson(value)
         [] fieldType = "point" ->
              IF isPointString(value) THEN Ok(convertStringToPoint(value))
              ELSE Thrown("Expected a point string from RedisJSON but received", "")
         [] fieldType \in {"string", "text"} ->
              IF isString(value) THEN Ok(value)
              ELSE IF isBoolean(value) \/ isNumber(value) THEN Ok(Str(ToStringJS(value)))
              ELSE Thrown("Expected a string from RedisJSON but received", "")
         [] fieldType = "string[]" ->
              IF isArray(value) THEN convertFromJsonArrayToStringArray(value)
              ELSE Thrown("Expected a string[] from RedisJSON but received", "")

convertUnknownValueToJson(value) == IF isDate(value) THEN convertDateToEpoch(value) ELSE value

\* ---- the working copy, the caller's document, and what they share ----
\* work: the document being converted; orig: the caller's document; shared: the
\* locations of the objects and arrays of work that are the caller's own objects
\* (a write through such a parent is a write to the caller's document); err: the
\* error thrown, if any.
Containers(d) == {l \in AllLocs(d) : Get(d, l).t \in {"object", "array"}}

WriteAt(st, loc, x) ==
  [st EXCEPT !.work = Put(st.work, loc, x),
             !.orig = IF Front(loc) \in st.shared THEN Put(st.orig, loc, x) ELSE st.orig,
             !.shared = {l \in st.shared : ~IsPrefix(loc, l)}]

DeleteAt(st, loc) ==
  [st EXCEPT !.work = Del(st.work, loc),
             !.orig = IF Front(loc) \in st.shared THEN Del(st.orig, loc) ELSE st.orig,
             !.shared = {l \in st.shared : ~IsPrefix(loc, l)}]

Raise(st, err) == [st EXCEPT !.err = err]

\* just-clone: objects and arrays are rebuilt at every depth, a Date is rebuilt
\* from its time; nothing of the copy is an object of the argument
RECURSIVE CloneValue(_)
CloneValue(v) ==
  IF v.t \in {"object", "array"}
    THEN Val(v.t, v.s, v.n, [i \in DOMAIN v.e |-> Entry(v.e[i].k, CloneValue(v.e[i].v))])
    ELSE Val(v.t, v.s, v.n, <<>>)
clone(d) == [copy |-> CloneValue(d), shared |-> {}]

\* ---- schema ----
Field(name, type, path) == [name |-> name, type |-> type, path |-> path]
\* fieldDef.path ?? `$.${fieldName}`
PathOf(fieldName, fieldDef) == IF fieldDef.path = "" THEN "$." \o fieldName ELSE fieldDef.path
\* the steps of the paths of the model
StepsOf(path) ==
  CASE path = "$.a" -> <<"a">>
    [] path = "$.b" -> <<"b">>
    [] path = "$.a[*]" -> <<"a", "*">>
    [] path = "$.a.x" -> <<"a", "x">>

\* ---- encode ----
convertKnownResultToJson(fieldType, st, loc) ==
  LET value == Get(st.work, loc)
  IN  IF isDefined(value)
        THEN LET c == convertKnownValueToJson(fieldType, value)
             IN  IF c.ok THEN WriteAt(st, loc, c.v) ELSE Raise(st, c.err)
        ELSE st

\* several matches handled like one: the first is converted, nothing is thrown
convertKnownResultsFirstOnly(fieldType, path, st, results) ==
  convertKnownResultToJson(fieldType, st, results[1])

convertKnownResultsToJson(fieldType, path, st, results) ==
  IF fieldType = "string[]"
    THEN LET snap == st.work
             RECURSIVE Each(_, _)
             Each(s, i) ==
               IF i > Len(results) \/ s.err # NoErr THEN s
               ELSE LET value == Get(snap, results[i])
                        parent == Get(snap, Front(results[i]))
                    IN  IF isNull(value)
                          THEN Raise(s, [kind |-> "Expected a string[] but received an array or object containing null", what |-> ""])
                        ELSE IF isUndefined(value) /\ isArray(parent)
                          THEN Raise(s, [kind |-> "Expected a string[] but received an array containing undefined", what |-> ""])
                        ELSE IF isDefined(value)
                          THEN LET c == convertKnownValueToString(value)
                               IN  IF c.ok THEN Each(WriteAt(s, results[i], c.v), i + 1)
                                   ELSE Raise(s, c.err)
                        ELSE Each(s, i + 1)
         IN  Each(st, 1)
    ELSE Raise(st, [kind |-> "Expected path to point to a single value but found many", what |-> path])

\* one turn of Object.entries(schemaDef).forEach
EncodeField(st, fieldDef) ==
  LET type == fieldDef.type
      path == PathOf(fieldDef.name, fieldDef)
      results == JSONPath(StepsOf(path), st.work)
  IN  IF Len(results) = 1 THEN convertKnownResultToJson(type, st, results[1])
      ELSE IF Len(results) > 1 THEN convertKnownResultsToJson(type, path, st, results)
      ELSE st

\* a loop that stops after the first field definition
convertToRedisJsonKnownFirstOnly(schemaDef, st) ==
  IF schemaDef = <<>> THEN st ELSE EncodeField(st, Head(schemaDef))

RECURSIVE convertToRedisJsonKnown(_, _)
convertToRedisJsonKnown(schemaDef, st) ==
  IF schemaDef = <<>> \/ st.err # NoErr THEN st
  ELSE convertToRedisJsonKnown(Tail(schemaDef), EncodeField(st, Head(schemaDef)))

\* Object.entries(json).forEach over the entries json had when the loop began;
\* json[key] = value of an unchanged value changes nothing and is left out
RECURSIVE UnknownEntries(_, _, _, _)
UnknownEntries(st, loc, entries, i) ==
  IF i > Len(entries) THEN st
  ELSE LET key == entries[i].k
           value == entries[i].v
           here == Append(loc, key)
       IN  IF isUndefined(value)
             THEN UnknownEntries(DeleteAt(st, here), loc, entries, i + 1)
           ELSE IF isObject(value)
             THEN UnknownEntries(UnknownEntries(st, here, Get(st.work, here).e, 1),
                                 loc, entries, i + 1)
           ELSE IF isDate(value)
             THEN UnknownEntries(WriteAt(st, here, convertUnknownValueToJson(value)),
                                 loc, entries, i + 1)
           ELSE UnknownEntries(st, loc, entries, i + 1)

\* a pass that drops undefined keys without going into nested objects
convertToRedisJsonUnknownFlat(st, loc) ==
  LET entries == Get(st.work, loc).e
      RECURSIVE Each(_, _)
      Each(s, i) ==
        IF i > Len(entries) THEN s
        ELSE IF isUndefined(entries[i].v)
          THEN Each(DeleteAt(s, Append(loc, entries[i].k)), i + 1)
        ELSE IF isDate(entries[i].v)
          THEN Each(WriteAt(s, Append(loc, entries[i].k), convertUnknownValueToJson(entries[i].v)), i + 1)
        ELSE Each(s, i + 1)
  IN  Each(st, 1)

convertToRedisJsonUnknown(st, loc) == UnknownEntries(st, loc, Get(st.work, loc).e, 1)

\* what a call leaves behind: ret, returned or thrown; data, the caller's document
Outcome(st) ==
  [ret |-> IF st.err = NoErr THEN Ok(st.work) ELSE [ok |-> FALSE, v |-> Undefined, err |-> st.err],
   data |-> st.orig]

\* a toRedisJson that converts the caller's document itself
toRedisJsonInPlace(schemaDef, d) ==
  LET st1 == convertToRedisJsonKnown(schemaDef,
               [work |-> d, orig |-> d, shared |-> Containers(d), err |-> NoErr])
  IN  Outcome(IF st1.err # NoErr THEN st1 ELSE convertToRedisJsonUnknown(st1, <<>>))

toRedisJson(schemaDef, d) ==
  LET json == clone(d)
      st1 == convertToRedisJsonKnown(schemaDef,
               [work |-> json.copy, orig |-> d, shared |-> json.shared, err |-> NoErr])
  IN  Outcome(IF st1.err # NoErr THEN st1 ELSE convertToRedisJsonUnknown(st1, <<>>))

\* ---- decode ----
DecodeResults(st, results) ==
  LET snap == st.work
      RECURSIVE Each(_, _)
      Each(s, i) ==
        IF i > Len(results) \/ s.err # NoErr THEN s
        ELSE LET value == Get(snap, results[i])
             IN  IF isNull(value)
                   THEN Raise(s, [kind |-> "Expected a string[] from RedisJSON but received an array or object containing null", what |-> ""])
                 ELSE LET c == convertKnownValueToString(value)
                      IN  IF c.ok THEN Each(WriteAt(s, results[i], c.v), i + 1)
                          ELSE Raise(s, c.err)
  IN  Each(st, 1)

\* results.length === 1
DecodeOne(st, fieldDef, loc) ==
  LET c == convertKnownValueFromJson(fieldDef.type, Get(st.work, loc))
  IN  IF c.ok THEN WriteAt(st, loc, c.v) ELSE Raise(st, c.err)

\* a decode that leaves several matches alone whatever the type
DecodeManyIgnored(st, fieldDef, results) == st

\* a decode that converts the first of several matches of a field that is no string[]
DecodeManyFirst(st, fieldDef, results) ==
  IF fieldDef.type = "string[]" THEN DecodeResults(st, results)
  ELSE DecodeOne(st, fieldDef, results[1])

\* results.length > 1
DecodeMany(st, fieldDef, results) ==
  IF fieldDef.type = "string[]" THEN DecodeResults(st, results) ELSE st

\* one turn of Object.entries(schemaDef).forEach
DecodeField(st, fieldDef) ==
  LET path == PathOf(fieldDef.name, fieldDef)
      results == JSONPath(StepsOf(path), st.work)
  IN  IF Len(results) = 1 THEN DecodeOne(st, fieldDef, results[1])
      ELSE IF Len(results) > 1 THEN DecodeMany(st, fieldDef, results)
      ELSE st

RECURSIVE convertFromRedisJsonKnown(_, _)
convertFromRedisJsonKnown(schemaDef, st) ==
  IF schemaDef = <<>> \/ st.err # NoErr THEN st
  ELSE convertFromRedisJsonKnown(Tail(schemaDef), DecodeField(st, Head(schemaDef)))

fromRedisJson(schemaDef, json) ==
  LET d == clone(json)
  IN  Outcome(convertFromRedisJsonKnown(schemaDef,
                [work |-> d.copy, orig |-> json, shared |-> d.shared, err |-> NoErr]))

\* ---- the schemas and documents the calls are made with ----
Types == {"boolean", "number", "date", "point", "string", "text", "string[]"}
TypesB == {"number", "date", "point", "string", "string[]"}
FieldsA == {Field("a", ty, p) : ty \in Types, p \in {"", "$.a[*]"}}
FieldsB == {Field("b", ty, p) : ty \in TypesB, p \in {"", "$.a", "$.a[*]", "$.a.x"}}
Schemas ==
  {<<f>> : f \in FieldsA \cup FieldsB}
    \cup {<<f, g>> : f \in FieldsA, g \in FieldsB}
    \cup {<<g, f>> : g \in FieldsB, f \in FieldsA}

Scalars ==
  {Null, Undefined, Bool(TRUE), Num(42000000), Str("x"), Str("1,2"),
   Str("1970-01-01T00:00:01.500Z"), DateOf(1500)}
Elems == {Null, Undefined, Num(1000000), Str("x")}
Arrays ==
  {Arr(s) : s \in UNION {[1..n -> Elems] : n \in 0..MaxArrLen}}
    \cup {Arr(<<Obj(<<Entry("x", Undefined)>>)>>)}
Objects ==
  {Point(Num(1000000), Num(2000000)),
   Obj(<<Entry("x", Undefined)>>),
   Obj(<<Entry("x", Null), Entry("y", Undefined)>>),
   Obj(<<Entry("x", Obj(<<Entry("x", Undefined), Entry("y", DateOf(1500))>>))>>)}
ValuesA == Scalars \cup Arrays \cup Objects
ValuesB == {Undefined, Num(42000000), Str("x")}
Docs ==
  {Obj(<<>>)}
    \cup {Obj(<<Entry("a", va)>>) : va \in ValuesA}
    \cup {Obj(<<Entry("b", vb)>>) : vb \in ValuesB}
    \cup {Obj(<<Entry("a", va), Entry("b", vb)>>) : va \in ValuesA, vb \in ValuesB}

NoRes == [ok |-> FALSE, v |-> Undefined, err |-> NoErr]

TInit ==
  /\ schema \in Schemas
  /\ doc \in Docs
  /\ doc0 = doc
  /\ tpc = "start"
  /\ res = NoRes
  /\ back = NoRes
  \* the gateway is not used
  /\ store = EmptyHash
  /\ pc = [s \in Sessions |-> "idle"]
  /\ data = [s \in Sessions |-> EmptyHash]
  /\ watching = [s \in Sessions |-> FALSE]
  /\ dirty = [s \in Sessions |-> FALSE]
  /\ reply = [s \in Sessions |-> "none"]
  /\ caught = [s \in Sessions |-> NoError]
  /\ outcome = [s \in Sessions |-> [kind |-> "none", err |-> NoError]]
  /\ failedAt = [s \in Sessions |-> "none"]
  /\ applied = [s \in Sessions |-> FALSE]
  /\ conflicted = [s \in Sessions |-> FALSE]
  /\ written = {store}
  /\ lastRead = store
  /\ ncalls = 0

\* toRedisJson(schema, doc)
ToRedisJson ==
  /\ tpc = "start"
  /\ LET r == toRedisJson(schema, doc)
     IN  res' = r.ret /\ doc' = r.data
  /\ tpc' = "encoded"
  /\ UNCHANGED <<schema, doc0, back>>
  /\ UNCHANGED gvars

\* fromRedisJson(schema, doc)
FromRedisJson ==
  /\ tpc = "start"
  /\ LET r == fromRedisJson(schema, doc)
     IN  res' = r.ret /\ doc' = r.data
  /\ tpc' = "decoded"
  /\ UNCHANGED <<schema, doc0, back>>
  /\ UNCHANGED gvars

\* fromRedisJson(schema, <the document toRedisJson returned>)
FromRedisJsonOfStored ==
  /\ tpc = "encoded"
  /\ res.ok
  /\ LET r == fromRedisJson(schema, res.v)
     IN  back' = r.ret
  /\ tpc' = "roundtrip"
  /\ UNCHANGED <<schema, doc, doc0, res>>
  /\ UNCHANGED gvars

TNext == ToRedisJson \/ FromRedisJson \/ FromRedisJsonOfStored

SpecTranscoder == TInit /\ [][TNext]_vars

----------------------------------------------------------------------------
(* Specifications and claims                                               *)

GInit ==
  /\ store \in {EmptyHash, OldRecord}
  /\ pc = [s \in Sessions |-> "idle"]
  /\ data = [s \in Sessions |-> EmptyHash]
  /\ watching = [s \in Sessions |-> FALSE]
  /\ dirty = [s \in Sessions |-> FALSE]
  /\ reply = [s \in Sessions |-> "none"]
  /\ caught = [s \in Sessions |-> NoError]
  /\ outcome = [s \in Sessions |-> [kind |-> "none", err |-> NoError]]
  /\ failedAt = [s \in Sessions |-> "none"]
  /\ applied = [s \in Sessions |-> FALSE]
  /\ conflicted = [s \in Sessions |-> FALSE]
  /\ written = {store}
  /\ lastRead = store
  /\ ncalls = 0
  \* the transcoder is not used
  /\ schema = <<>>
  /\ doc = Null
  /\ doc0 = Null
  /\ tpc = "off"
  /\ res = NoRes
  /\ back = NoRes

SpecGateway == GInit /\ [][GNext]_vars

----------------------------------------------------------------------------
(* Claims about the gateway                                                *)

WriteConflict == [kind |-> "error", err |-> RedisError]
Ended(s) == pc[s] = "idle" /\ outcome[s].kind # "none"

\* C1 (as stated): whenever another session's hsetall commits after session s
\* issued its watch and before the server ran s's exec, s's call fails with the
\* Write Conflict error.
C1_AlwaysWriteConflict ==
  \A s \in Sessions :
    (conflicted[s] /\ Ended(s) /\ failedAt[s] # "exec") => outcome[s] = WriteConflict

\* C1 (amended): in that case s's transaction is never applied over the first
\* session's record and s never reports success; s fails with the Write Conflict
\* error whenever the server's answer to its exec reaches the client, and with
\* the transport error when the connection fails first.
C1_ConflictNeverOverwrites ==
  \A s \in Sessions :
    conflicted[s] =>
      /\ ~applied[s]
      /\ outcome[s].kind # "ok"
      /\ (Ended(s) /\ failedAt[s] \notin {"exec", "lost"}) => outcome[s] = WriteConflict
      /\ (Ended(s) /\ failedAt[s] \in {"exec", "lost"}) => outcome[s].err = caught[s]

C1_Witness ==
  \E s \in Sessions, t \in Sessions :
    /\ s # t
    /\ conflicted[s] /\ outcome[s] = WriteConflict
    /\ applied[t] /\ store = data[t] /\ store # data[s]

\* C2 (as stated): the stored record, and every record read, is the initial
\* record, the empty record left by an unlink, or exactly the data of one
\* committed hsetall; and a call that fails was not applied.
C2_FailedCallNeverApplied ==
  /\ store \in written
  /\ lastRead \in written
  /\ \A s \in Sessions : outcome[s].kind = "error" => ~applied[s]

\* C2 (amended): as above, but a call that fails was not applied unless it failed
\* because the connection broke after the server had run its exec; then its data
\* was stored in full.
C2_AllOrNothing ==
  /\ store \in written
  /\ lastRead \in written
  /\ \A s \in Sessions :
       (outcome[s].kind = "error" /\ failedAt[s] # "lost") => ~applied[s]

C2_Witness ==
  \E s \in Sessions, t \in Sessions :
    /\ s # t
    /\ OldRecord \in written
    /\ applied[s] /\ store = data[s] /\ DOMAIN store # FieldNames
    /\ lastRead = store
    /\ outcome[t].kind = "error" /\ failedAt[t] # "lost" /\ data[t] # data[s]

\* C3: hsetall throws the Write Conflict error exactly when the error it caught
\* is the WatchError of an exec aborted by the watch; every other error caught
\* is rethrown as it is; a call that caught an error never reports success.
C3_ErrorPropagation ==
  \A s \in Sessions :
    /\ (outcome[s].kind = "error") <=> (caught[s] # NoError)
    /\ outcome[s].kind = "error" =>
         /\ (outcome[s].err = RedisError) <=> (failedAt[s] = "abort")
         /\ (failedAt[s] = "abort") <=> (caught[s].name = "WatchError")
         /\ failedAt[s] # "abort" => outcome[s].err = caught[s]
    /\ outcome[s].kind = "ok" => (applied[s] /\ failedAt[s] = "none")

C3_Witness ==
  \E s \in Sessions, t \in Sessions :
    /\ outcome[s] = WriteConflict /\ caught[s] = WatchError
    /\ outcome[t].kind = "error" /\ outcome[t].err \in TransportErrors

----------------------------------------------------------------------------
(* Claims about the transcoder                                             *)

Called == tpc \in {"encoded", "decoded", "roundtrip"}
StepsOfField(f) == StepsOf(PathOf(f.name, f))
Matches(f, d) == JSONPath(StepsOfField(f), d)
MatchedValues(f, d) == {Get(d, Matches(f, d)[i]) : i \in DOMAIN Matches(f, d)}
ValueAt(d, loc) == IF HasLoc(d, loc) THEN Get(d, loc) ELSE Undefined
Start(d) == [work |-> d, orig |-> d, shared |-> {}, err |-> NoErr]
ManyError(f) ==
  [kind |-> "Expected path to point to a single value but found many",
   what |-> PathOf(f.name, f)]

\* C4: neither toRedisJson nor fromRedisJson changes the document it is given,
\* at any depth, whether it returns or throws.
C4_InputNotMutated == Called => doc = doc0

C4_Witness ==
  /\ tpc = "encoded" /\ ~res.ok
  /\ schema = <<Field("a", "string[]", "$.a[*]")>>
  /\ ValueAt(doc0, <<"a", "0">>) = Num(1000000)
  /\ isNull(ValueAt(doc0, <<"a", "1">>))
  /\ doc = doc0

\* the application-level shape of a declared type
AppShape(type, v) ==
  CASE type = "boolean" -> isBoolean(v)
    [] type = "number" -> isNumber(v)
    [] type = "date" -> isDate(v)
    [] type = "point" -> isPoint(v)
    [] type \in {"string", "text"} -> isString(v)
    [] type = "string[]" -> isArray(v) /\ \A i \in DOMAIN v.e : isString(v.e[i].v)
\* dates at second granularity, points by longitude and latitude, others as they are
ObsEqual(x, y) ==
  IF isDate(x) /\ isDate(y) THEN x.s = y.s /\ x.n \div 1000 = y.n \div 1000
  ELSE IF isPoint(x) /\ isPoint(y)
    THEN /\ Child(x, "longitude") = Child(y, "longitude")
         /\ Child(x, "latitude") = Child(y, "latitude")
  ELSE x = y
RoundTripOfA ==
  /\ tpc = "roundtrip"
  /\ Len(schema) = 1 /\ schema[1].name = "a" /\ schema[1].path = ""
  /\ Has(doc0, "a")

\* C5 (as stated): for a schema {a: T} and every value v that toRedisJson accepts
\* for T, fromRedisJson(toRedisJson({a: v})).a is observably equal to v.
C5_RoundTripEveryAccepted ==
  RoundTripOfA => (back.ok /\ ObsEqual(ValueAt(back.v, <<"a">>), Child(doc0, "a")))

\* C5 (amended): the round trip gives back v for every v of T's application type
\* (boolean, number, Date, point, string, array of strings); the other values
\* encode accepts for string, text and string[] (booleans, numbers) come back as
\* their strings, and those it accepts for date (strings, numbers) as a Date.
C5_RoundTripAppShape ==
  RoundTripOfA =>
    LET v == Child(doc0, "a")
        type == schema[1].type
        r == ValueAt(back.v, <<"a">>)
    IN  /\ AppShape(type, v) => (back.ok /\ ObsEqual(r, v))
        /\ (type \in {"string", "text"} /\ (isBoolean(v) \/ isNumber(v)))
             => (back.ok /\ r = Str(ToStringJS(v)))
        /\ (type = "date" /\ (isString(v) \/ isNumber(v))) => (back.ok /\ isDate(r))

C5_Witness ==
  /\ RoundTripOfA
  /\ schema[1].type = "date"
  /\ isDate(Child(doc0, "a"))
  /\ isNumber(ValueAt(res.v, <<"a">>))
  /\ back.ok /\ ValueAt(back.v, <<"a">>) = Child(doc0, "a")

\* the keys of doc0 that hold undefined inside an object
UndefinedKeys == {l \in AllLocs(doc0) : l # <<>> /\ isObject(Get(doc0, Front(l)))
                                        /\ isUndefined(Get(doc0, l))}
ThroughObjectsOnly(l) == \A n \in 0..(Len(l) - 1) : isObject(Get(doc0, SubSeq(l, 1, n)))

\* C6 (as stated): the document toRedisJson returns holds none of the keys that
\* held undefined in an object of the input, at whatever depth the object lies.
C6_NoUndefinedKeyAtAnyDepth ==
  (tpc = "encoded" /\ res.ok) => \A l \in UndefinedKeys : ~HasLoc(res.v, l)

\* C6 (amended): the same for every object reached from the root through objects
\* only; an object that is an element of an array is left as it is.
C6_NoUndefinedKeyThroughObjects ==
  (tpc = "encoded" /\ res.ok) =>
    \A l \in UndefinedKeys : ThroughObjectsOnly(l) => ~HasLoc(res.v, l)

C6_Witness ==
  /\ tpc = "encoded" /\ res.ok
  /\ \E l \in UndefinedKeys : Len(l) = 3 /\ ThroughObjectsOnly(l) /\ ~HasLoc(res.v, l)
                                /\ HasLoc(res.v, Front(l))

\* C7 (as stated): toRedisJson throws the many-values error naming the path
\* whenever a field that is not a string[] has a path matching more than one
\* location of the document.
C7_ManyAlwaysThrows ==
  tpc = "encoded" =>
    \A i \in DOMAIN schema :
      (schema[i].type # "string[]" /\ Len(Matches(schema[i], doc0)) > 1)
        => (~res.ok /\ res.err = ManyError(schema[i]))

\* C7 (amended): toRedisJson throws the many-values error naming the path
\* whenever it reaches a field that is not a string[] (no earlier field of the
\* schema threw) whose path then matches more than one location of the working
\* copy, whatever the matched values are.
C7_ManyThrowsWhenReached ==
  tpc = "encoded" =>
    \A i \in DOMAIN schema :
      LET before == convertToRedisJsonKnown(SubSeq(schema, 1, i - 1), Start(doc0))
      IN  (/\ before.err = NoErr
           /\ schema[i].type # "string[]"
           /\ Len(Matches(schema[i], before.work)) > 1)
            => (~res.ok /\ res.err = ManyError(schema[i]))

C7_Witness ==
  /\ tpc = "encoded"
  /\ Len(schema) = 2 /\ schema[2].type = "number"
  /\ Len(Matches(schema[2], doc0)) > 1
  /\ MatchedValues(schema[2], doc0) \subseteq {Null, Undefined}
  /\ res.err = ManyError(schema[2])

NullAmongMatches(f, d) == \E v \in MatchedValues(f, d) : isNull(v)
ArrayWithNullMatched(f, d) ==
  \E v \in MatchedValues(f, d) : isArray(v) /\ \E i \in DOMAIN v.e : isNull(v.e[i].v)

\* C8 (as stated): for a string[] field, toRedisJson and fromRedisJson throw
\* whenever a location matched by its path holds null, or holds an array with a
\* null in it, for one match as for several.
C8_NullAlwaysThrows ==
  tpc \in {"encoded", "decoded"} =>
    \A i \in DOMAIN schema :
      (schema[i].type = "string[]"
         /\ (NullAmongMatches(schema[i], doc0) \/ ArrayWithNullMatched(schema[i], doc0)))
        => ~res.ok

\* C8 (amended): they throw whenever the path matches two or more locations and
\* one of them holds null, or matches a location holding an array with a null in
\* it; a single matched location that itself holds null passes through.
C8_NullThrowsAmongMany ==
  tpc \in {"encoded", "decoded"} =>
    \A i \in DOMAIN schema :
      (schema[i].type = "string[]"
         /\ \/ (Len(Matches(schema[i], doc0)) > 1 /\ NullAmongMatches(schema[i], doc0))
            \/ ArrayWithNullMatched(schema[i], doc0))
        => ~res.ok

C8_Witness ==
  /\ tpc = "decoded" /\ ~res.ok
  /\ schema = <<Field("a", "string[]", "$.a[*]")>>
  /\ Len(Matches(schema[1], doc0)) = 2
  /\ ValueAt(doc0, <<"a", "0">>) = Str("x")
  /\ isNull(ValueAt(doc0, <<"a", "1">>))

ManyNonArray(f, d) == f.type # "string[]" /\ Len(Matches(f, d)) > 1

Reverse(s) == [i \in DOMAIN s |-> s[Len(s) + 1 - i]]
SameOutcome(r1, r2) == (r1.ok /\ r2.ok /\ r1.v = r2.v) \/ (~r1.ok /\ ~r2.ok)
\* two paths overlap when one can match a location the other matches or lies above
Overlap(p, q) ==
  \A i \in 1..(IF Len(p) < Len(q) THEN Len(p) ELSE Len(q)) :
    p[i] = q[i] \/ p[i] = "*" \/ q[i] = "*"
NoOverlap(s) ==
  \A i \in DOMAIN s, j \in DOMAIN s :
    i # j => ~Overlap(StepsOfField(s[i]), StepsOfField(s[j]))
OtherOrder ==
  IF tpc = "encoded" THEN toRedisJson(Reverse(schema), doc0).ret
  ELSE fromRedisJson(Reverse(schema), doc0).ret

\* C10 (as stated): with the same field definitions in another order, overlapping
\* paths included, toRedisJson and fromRedisJson have the same outcome: the same
\* document, or an error both times.
C10_OrderNeverMatters ==
  tpc \in {"encoded", "decoded"} => SameOutcome(res, OtherOrder)

\* C10 (amended): the same holds when no two fields of the schema have
\* overlapping paths; with overlapping paths the outcome depends on the order.
C10_OrderIndependentWithoutOverlap ==
  (tpc \in {"encoded", "decoded"} /\ NoOverlap(schema)) => SameOutcome(res, OtherOrder)

C10_Witness ==
  /\ tpc = "encoded" /\ res.ok
  /\ Len(schema) = 2 /\ NoOverlap(schema)
  /\ Has(doc0, "a") /\ Has(doc0, "b")
  /\ ValueAt(res.v, <<"a">>) # Child(doc0, "a")
  /\ isString(ValueAt(res.v, <<"b">>)) /\ isNumber(Child(doc0, "b"))
  /\ OtherOrder = res

====
